---- MODULE Spec2Model ----
(***************************************************************************)
(* Model of repository.go: the command that registers a named repository  *)
(* by materialising .template/ into <name>/, inserting a link into the     *)
(* list of index.html, inserting a link into the list of README.md and     *)
(* adding the name to repository.json.                                     *)
(*                                                                         *)
(* Names are drawn from 1..MaxName; the integer order stands for Go's      *)
(* byte-wise string order, which index (>=), readme (==, >) and record     *)
(* (slices.Sort) all share.                                                *)
(***************************************************************************)
EXTENDS Integers, Sequences, FiniteSets

\* ---------------------------------------------------------------- bounds
MaxName == 3
MaxArgs == 2
NumTemplates == 2
MaxRuns == 2
MaxLen == 3

Names == 1..MaxName
\* fs.Glob(dirFS, "*") yields the template files 1..NumTemplates in sorted
\* order

\* ------------------------------------------------------- sequence helpers
Min(S) == CHOOSE x \in S : \A y \in S : x <= y

Range(s) == {s[i] : i \in 1..Len(s)}

StrictlySorted(s) == \A i \in 1..Len(s) - 1 : s[i] < s[i + 1]

SeqsUpTo(S, n) == UNION {[1..k -> S] : k \in 0..n}

\* the ascending sequence of the elements of a set
SeqOfSet(S) ==
  CHOOSE s \in [1..Cardinality(S) -> S] : Range(s) = S /\ StrictlySorted(s)

\* ------------------------------------------------------------ slices.Sort
RECURSIVE InsertSorted(_, _)
InsertSorted(s, x) ==
  IF s = <<>> THEN <<x>>
  ELSE IF x <= Head(s) THEN <<x>> \o s
  ELSE <<Head(s)>> \o InsertSorted(Tail(s), x)

RECURSIVE SlicesSort(_)
SlicesSort(s) == IF s = <<>> THEN <<>> ELSE InsertSorted(SlicesSort(Tail(s)), Head(s))

\* ------------------------------------------------- the parsed index.html
\* Nodes of the tree html.Parse returns.  A shape is the skeleton of the
\* document above the list; the children of the <ul> are the variable ulKids.
Nil == 0
DocumentNode == 1
HtmlNode == 2
HeadNode == 3
BodyNode == 4
DivNode == 5
UlNode == 6
ParaNode == 7
Div2Node == 8

\* "list":  html > body > div > ul           (the layout index() expects)
\* "nodiv": html > body > p                  (no div under body)
\* "div2":  html > body > (div > p), (div > ul)   (the first div holds no ul)
Shapes == {"list", "nodiv", "div2"}

NodeType(n) == IF n = DocumentNode THEN "document" ELSE "element"

NodeData(n) ==
  CASE n = HtmlNode -> "html"
    [] n = HeadNode -> "head"
    [] n = BodyNode -> "body"
    [] n = DivNode -> "div"
    [] n = Div2Node -> "div"
    [] n = UlNode -> "ul"
    [] n = ParaNode -> "p"
    [] OTHER -> ""

Kids(shape, n) ==
  CASE n = DocumentNode -> <<HtmlNode>>
    [] n = HtmlNode -> <<HeadNode, BodyNode>>
    [] n = BodyNode -> (CASE shape = "list" -> <<DivNode>>
                          [] shape = "nodiv" -> <<ParaNode>>
                          [] OTHER -> <<DivNode, Div2Node>>)
    [] n = DivNode -> IF shape = "list" THEN <<UlNode>> ELSE <<ParaNode>>
    [] n = Div2Node -> <<UlNode>>
    [] OTHER -> <<>>

FirstChild(shape, n) == IF Kids(shape, n) = <<>> THEN Nil ELSE Head(Kids(shape, n))

\* child.NextSibling, for a child of parent
NextSibling(shape, parent, c) ==
  LET ks == Kids(shape, parent)
      i == CHOOSE j \in 1..Len(ks) : ks[j] = c
  IN IF i = Len(ks) THEN Nil ELSE ks[i + 1]

ElementPath == <<"html", "body", "div", "ul">>

\* --------------------------------------------------- the <ul>'s children
\* A child of the <ul> is a whitespace text node (TextNode) or an
\* <li><a href="/NAME">NAME</a></li> element, written as its anchor text NAME.
TextNode == 0

HtmlKeys(kids) == SelectSeq(kids, LAMBDA k : k # TextNode)

\* the <ul> of a formatted page holding the given names
HtmlOf(keys) ==
  [i \in 1..(2 * Len(keys) + 1) |-> IF i % 2 = 1 THEN TextNode ELSE keys[i \div 2]]

\* html.Render followed by html.Parse at the next read: adjacent text nodes
\* come back as one text node
RECURSIVE MergeText(_)
MergeText(kids) ==
  IF Len(kids) < 2 THEN kids
  ELSE IF kids[1] = TextNode /\ kids[2] = TextNode THEN MergeText(Tail(kids))
  ELSE <<Head(kids)>> \o MergeText(Tail(kids))

\* the scan with > written for >=
FindChildStrict(kids, n) ==
  LET hits == {i \in 1..Len(kids) : kids[i] # TextNode /\ kids[i] > n}
  IN IF hits = {} THEN 0 ELSE Min(hits)

\* index(): the scan "for child != nil" over the <ul>'s children; the position
\* of the first element whose anchor text is >= name, 0 when child ends nil
FindChild(kids, n) ==
  LET hits == {i \in 1..Len(kids) : kids[i] # TextNode /\ kids[i] >= n}
  IN IF hits = {} THEN 0 ELSE Min(hits)

\* the duplicate check left out
IndexPresentNever(kids, n) == FALSE

\* index(): "don't duplicate"
IndexPresent(kids, n) == FindChild(kids, n) # 0 /\ kids[FindChild(kids, n)] = n

\* the new item always appended
IndexInsertAppend(kids, n) == kids \o <<n, TextNode>>

\* index(): InsertBefore / AppendChild of the new <li> and its text node
IndexInsert(kids, n) ==
  LET i == FindChild(kids, n)
  IN IF i # 0
       THEN SubSeq(kids, 1, i - 1) \o <<n, TextNode>> \o SubSeq(kids, i, Len(kids))
       ELSE kids \o <<n, TextNode>>

\* ------------------------------------------------ the parsed README.md
\* ast.ListItemBeginningOfList and ast.ListItemEndOfList are the two bits of
\* ListFlags a bullet item carries ("Begin", "End"); ListFlags = 0 is the
\* empty set.
Item(k, f) == [key |-> k, flags |-> f]

\* parser.Parse of the list: the first item is flagged beginning-of-list;
\* the last item is flagged end-of-list when the list is closed by a block
\* that follows it (tail), and not when the document ends with the list
ParseList(keys, tail) ==
  [i \in 1..Len(keys) |->
     Item(keys[i], (IF i = 1 THEN {"Begin"} ELSE {})
                   \cup (IF i = Len(keys) /\ tail THEN {"End"} ELSE {}))]

MdKeys(es) == [i \in 1..Len(es) |-> es[i].key]

\* readme(): the scan over entries; the 1-based position of the first entry
\* whose link text equals name or is greater, Len+1 when there is none
ScanStop(es, n) ==
  LET hits == {i \in 1..Len(es) : es[i].key = n \/ es[i].key > n}
  IN IF hits = {} THEN Len(es) + 1 ELSE Min(hits)

\* readme(): "content == name -> return nil"
ReadmePresent(es, n) == ScanStop(es, n) <= Len(es) /\ es[ScanStop(es, n)].key = n

\* the splice without clearing the previous holder's flags
ReadmeInsertKeepFlags(es, n) ==
  LET at == ScanStop(es, n)
  IN IF at <= Len(es)
       THEN SubSeq(es, 1, at - 1) \o <<Item(n, IF at = 1 THEN {"Begin"} ELSE {})>>
            \o SubSeq(es, at, Len(es))
       ELSE Append(es, Item(n, {"End"}))

\* readme(): the splice and the ListFlags bookkeeping
ReadmeInsert(es, n) ==
  LET at == ScanStop(es, n)
  IN IF at <= Len(es)
       THEN LET new == Item(n, IF at = 1 THEN {"Begin"} ELSE {})
                out == SubSeq(es, 1, at - 1) \o <<new>> \o SubSeq(es, at, Len(es))
            IN IF at = 1 THEN [out EXCEPT ![2].flags = {}] ELSE out
       ELSE LET out == Append(es, Item(n, {"End"}))
            IN IF Len(out) > 1 THEN [out EXCEPT ![Len(out) - 1].flags = {}] ELSE out

\* ------------------------------------------------------ repository.json
RecordPresent(m, n) == \E i \in 1..Len(m) : m[i] = n

\* the append without the sort
RecordInsertNoSort(m, n) == Append(m, n)

RecordInsert(m, n) == SlicesSort(Append(m, n))

\* ------------------------------------------------------- the output tree
\* tpl.Execute(writer, name): what template t renders to for a name
RenderTemplate(t, n) == <<t, n>>

NoDir == [exists |-> FALSE, files |-> {}]

\* render(): O_TRUNC then Execute: the file of template t is replaced
WriteTemplate(d, t, n) ==
  [exists |-> TRUE,
   files |-> {f \in d.files : f[1] # t} \cup {<<t, RenderTemplate(t, n)>>}]

\* instance(): MkdirAll, then the templates 1..k rendered in order
RECURSIVE Materialize(_, _, _)
Materialize(d, k, n) ==
  IF k = 0 THEN [d EXCEPT !.exists = TRUE]
  ELSE WriteTemplate(Materialize(d, k - 1, n), k, n)

FullDir(n) == Materialize(NoDir, NumTemplates, n)

\* ------------------------------------------------------------------ state
VARIABLES
  pc,        \* where the process is: "idle", "main", a step, or "exit"
  args,      \* os.Args[1:]
  name,      \* main's name (0 before it is read)
  err,       \* "pending" while running, "nil" after exit 0, else the fatal error
  calls,     \* the steps main has invoked in this run, in order
  wrote,     \* the paths this run has written
  runs,      \* invocations so far
  prevOk,    \* the name of the previous invocation when it exited 0, else 0
  dirs,      \* the output directories, by name
  htmlShape, \* index.html: the skeleton above the list
  ulKids,    \* index.html: the children of the <ul>
  mdFile,    \* README.md: the link texts of its list, in order
  manifest,  \* repository.json: the array
  element,   \* index(): element
  pathParts, \* index(): elementPathParts
  child,     \* index(): child of the path search
  entries    \* readme(): entries, after parsing

vars == <<pc, args, name, err, calls, wrote, runs, prevOk, dirs, htmlShape, ulKids,
          mdFile, manifest, element, pathParts, child, entries>>

files == <<dirs, htmlShape, ulKids, mdFile, manifest>>

locals == <<element, pathParts, child, entries>>

Order == <<"instance", "index", "readme", "record">>

\* main() with the Markdown update ahead of the HTML update
NextStepSwapped(s) ==
  CASE s = "instance" -> "readme"
    [] s = "readme" -> "index"
    [] s = "index" -> "record"
    [] s = "record" -> "exit"

\* main() with the manifest written first
NextStepRecordFirst(s) ==
  CASE s = "instance" -> "record"
    [] s = "record" -> "index"
    [] s = "index" -> "readme"
    [] s = "readme" -> "exit"

\* main(): the step that follows s when s returns nil
NextStep(s) ==
  CASE s = "instance" -> "index"
    [] s = "index" -> "readme"
    [] s = "readme" -> "record"
    [] s = "record" -> "exit"

\* a step returns nil to main
Return(s) ==
  /\ pc' = NextStep(s)
  /\ err' = IF NextStep(s) = "exit" THEN "nil" ELSE err

\* logger.Fatal
Fatal(e) == pc' = "exit" /\ err' = e

InitProcess ==
  /\ pc = "idle" /\ args = <<>> /\ name = 0 /\ err = "pending"
  /\ calls = <<>> /\ wrote = {} /\ runs = 0 /\ prevOk = 0
  /\ element = Nil /\ pathParts = <<>> /\ child = Nil /\ entries = <<>>

\* A site whose lists are sorted and duplicate-free: README.md lists the
\* names M (its list cannot be empty), index.html lists the same names when
\* it has the expected layout, and the manifest names R are among them and
\* have their directory.
Init ==
  /\ InitProcess
  /\ htmlShape \in Shapes
  /\ \E M \in (SUBSET Names) \ {{}} :
       LET H == IF htmlShape = "list" THEN M ELSE {}
       IN \E R \in SUBSET H :
            /\ ulKids = HtmlOf(SeqOfSet(H))
            /\ mdFile = SeqOfSet(M)
            /\ manifest = SeqOfSet(R)
            /\ dirs = [n \in Names |-> IF n \in R THEN FullDir(n) ELSE NoDir]

\* Arbitrary list contents (unsorted, with duplicates): the same key sequence
\* in the three documents (README.md's list cannot be empty); one invocation is
\* examined from each.
InitAny ==
  /\ pc = "idle" /\ args = <<>> /\ name = 0 /\ err = "pending"
  /\ calls = <<>> /\ wrote = {} /\ runs = MaxRuns - 1 /\ prevOk = 0
  /\ element = Nil /\ pathParts = <<>> /\ child = Nil /\ entries = <<>>
  /\ htmlShape = "list"
  /\ \E s \in SeqsUpTo(Names, MaxLen) :
       /\ ulKids = HtmlOf(s)
       /\ manifest = s
       /\ mdFile \in (IF s = <<>> THEN {<<n>> : n \in Names} ELSE {s})
  /\ dirs = [n \in Names |-> NoDir]

\* A small site, for the termination check.
InitLive ==
  /\ InitProcess
  /\ htmlShape \in Shapes
  /\ ulKids = HtmlOf(<<>>)
  /\ mdFile = <<MaxName>>
  /\ manifest = <<>>
  /\ dirs = [n \in Names |-> NoDir]

\* ---------------------------------------------------------------- actions
\* The command is started with 0..MaxArgs arguments.  Arguments after the
\* first are never read by main; they repeat the first.
Start ==
  /\ pc \in {"idle", "exit"}
  /\ runs < MaxRuns
  /\ runs' = runs + 1
  /\ prevOk' = IF pc = "exit" /\ err = "nil" THEN name ELSE 0
  /\ \E k \in 0..MaxArgs, n \in Names : args' = [i \in 1..k |-> n]
  /\ pc' = "main" /\ name' = 0 /\ err' = "pending"
  /\ calls' = <<>> /\ wrote' = {}
  /\ element' = Nil /\ pathParts' = <<>> /\ child' = Nil /\ entries' = <<>>
  /\ UNCHANGED files

\* main() falling back to a default name when the argument is absent
MainDefaultName ==
  /\ pc = "main"
  /\ pc' = "instance"
  /\ name' = IF Len(args) = 0 THEN Min(Names) ELSE args[1]
  /\ UNCHANGED <<args, err, calls, wrote, runs, prevOk, files, locals>>

\* main(): the argument check, then name := os.Args[1]
Main ==
  /\ pc = "main"
  /\ IF Len(args) = 0
       THEN Fatal("usage") /\ UNCHANGED name
       ELSE pc' = "instance" /\ name' = args[1] /\ UNCHANGED err
  /\ UNCHANGED <<args, calls, wrote, runs, prevOk, files, locals>>

\* instance(name): MkdirAll fails (k = 0), render of template k fails before
\* it writes (k in 1..NumTemplates), or every template is rendered
Instance ==
  /\ pc = "instance"
  /\ calls' = Append(calls, "instance")
  /\ \E k \in 0..(NumTemplates + 1) :
       IF k = 0
         THEN Fatal("mkdir") /\ UNCHANGED <<dirs, wrote>>
       ELSE IF k <= NumTemplates
         THEN /\ Fatal("render")
              /\ dirs' = [dirs EXCEPT ![name] = Materialize(@, k - 1, name)]
              /\ wrote' = wrote \cup {"dir"}
       ELSE /\ Return("instance")
            /\ dirs' = [dirs EXCEPT ![name] = Materialize(@, NumTemplates, name)]
            /\ wrote' = wrote \cup {"dir"}
  /\ UNCHANGED <<args, name, runs, prevOk, htmlShape, ulKids, mdFile, manifest, locals>>

\* index(name): os.ReadFile and html.Parse
IndexRead ==
  /\ pc = "index"
  /\ calls' = Append(calls, "index")
  /\ \/ Fatal("read") /\ UNCHANGED <<element, pathParts>>
     \/ /\ pc' = "index_outer"
        /\ element' = DocumentNode
        /\ pathParts' = ElementPath
        /\ UNCHANGED err
  /\ UNCHANGED <<args, name, wrote, runs, prevOk, files, child, entries>>

\* index(): "for len(elementPathParts) > 0 { child := element.FirstChild"
IndexOuter ==
  /\ pc = "index_outer"
  /\ IF Len(pathParts) > 0
       THEN pc' = "index_inner" /\ child' = FirstChild(htmlShape, element)
       ELSE pc' = "index_add" /\ UNCHANGED child
  /\ UNCHANGED <<args, name, err, calls, wrote, runs, prevOk, files, element, pathParts, entries>>

\* index(): "for child != nil { if match { ...; break }; child = child.NextSibling }"
IndexInner ==
  /\ pc = "index_inner"
  /\ IF child # Nil
       THEN IF NodeType(child) = "element" /\ NodeData(child) = Head(pathParts)
              THEN /\ element' = child
                   /\ pathParts' = Tail(pathParts)
                   /\ pc' = "index_outer"
                   /\ UNCHANGED child
              ELSE /\ child' = NextSibling(htmlShape, element, child)
                   /\ UNCHANGED <<pc, element, pathParts>>
       ELSE pc' = "index_outer" /\ UNCHANGED <<element, pathParts, child>>
  /\ UNCHANGED <<args, name, err, calls, wrote, runs, prevOk, files, entries>>

\* index(): add the item, html.Render and os.WriteFile
IndexAdd ==
  /\ pc = "index_add"
  /\ IF IndexPresent(ulKids, name)
       THEN Return("index") /\ UNCHANGED <<ulKids, wrote>>
       ELSE \/ Fatal("write") /\ UNCHANGED <<ulKids, wrote>>
            \/ /\ Return("index")
               /\ ulKids' = MergeText(IndexInsert(ulKids, name))
               /\ wrote' = wrote \cup {"index.html"}
  /\ UNCHANGED <<args, name, calls, runs, prevOk, dirs, htmlShape, mdFile, manifest, locals>>

\* readme(name): os.ReadFile and the two parses; the list is or is not
\* followed by another block
ReadmeRead ==
  /\ pc = "readme"
  /\ calls' = Append(calls, "readme")
  /\ \/ Fatal("read") /\ UNCHANGED entries
     \/ /\ pc' = "readme_scan"
        /\ \E tail \in BOOLEAN : entries' = ParseList(mdFile, tail)
        /\ UNCHANGED err
  /\ UNCHANGED <<args, name, wrote, runs, prevOk, files, element, pathParts, child>>

\* readme(): the scan, and the splice when the name is new
ReadmeScan ==
  /\ pc = "readme_scan"
  /\ IF ReadmePresent(entries, name)
       THEN Return("readme") /\ entries' = <<>>
       ELSE /\ pc' = "readme_write"
            /\ entries' = ReadmeInsert(entries, name)
            /\ UNCHANGED err
  /\ UNCHANGED <<args, name, calls, wrote, runs, prevOk, files, element, pathParts, child>>

\* readme(): markdown.Render and os.WriteFile
ReadmeWrite ==
  /\ pc = "readme_write"
  /\ \/ Fatal("write") /\ UNCHANGED <<mdFile, wrote>>
     \/ /\ Return("readme")
        /\ mdFile' = MdKeys(entries)
        /\ wrote' = wrote \cup {"README.md"}
  /\ entries' = <<>>
  /\ UNCHANGED <<args, name, calls, runs, prevOk, dirs, htmlShape, ulKids, manifest,
                 element, pathParts, child>>

\* record(name)
Record ==
  /\ pc = "record"
  /\ calls' = Append(calls, "record")
  /\ \/ Fatal("read") /\ UNCHANGED <<manifest, wrote>>
     \/ /\ RecordPresent(manifest, name)
        /\ Return("record")
        /\ UNCHANGED <<manifest, wrote>>
     \/ /\ ~RecordPresent(manifest, name)
        /\ \/ Fatal("write") /\ UNCHANGED <<manifest, wrote>>
           \/ /\ Return("record")
              /\ manifest' = RecordInsert(manifest, name)
              /\ wrote' = wrote \cup {"repository.json"}
  /\ UNCHANGED <<args, name, runs, prevOk, dirs, htmlShape, ulKids, mdFile, locals>>

Next ==
  \/ Start
  \/ Main
  \/ Instance
  \/ IndexRead
  \/ IndexOuter
  \/ IndexInner
  \/ IndexAdd
  \/ ReadmeRead
  \/ ReadmeScan
  \/ ReadmeWrite
  \/ Record

Spec == Init /\ [][Next]_vars

SpecAny == InitAny /\ [][Next]_vars

\* The process is single-threaded and is never suspended: whenever it can
\* take a step it eventually does.
LiveSpec == InitLive /\ [][Next]_vars /\ WF_vars(Next)

\* ----------------------------------------------------------------- claims
Running == pc \notin {"idle", "main", "exit"}

Sorted(s) == \A i \in 1..Len(s) - 1 : s[i] <= s[i + 1]

Count(s, x) == Cardinality({i \in 1..Len(s) : s[i] = x})

Holders(es, f) == {i \in 1..Len(es) : f \in es[i].flags}

\* only the first entry holds beginning-of-list, only the last end-of-list
MarkersWellPlaced(es) ==
  /\ Len(es) >= 1
  /\ Holders(es, "Begin") = {1}
  /\ Holders(es, "End") = {Len(es)}

\* the sequence without its element at position p
Without(s, p) == SubSeq(s, 1, p - 1) \o SubSeq(s, p + 1, Len(s))

\* The reference linear scan: insertAt is the first position whose key is
\* >= n; nothing changes when that key equals n, else n is spliced before it.
RefInsertAt(keys, n) ==
  LET hits == {i \in 1..Len(keys) : keys[i] >= n}
  IN IF hits = {} THEN Len(keys) + 1 ELSE Min(hits)

RefInsert(keys, n) ==
  LET at == RefInsertAt(keys, n)
  IN IF at <= Len(keys) /\ keys[at] = n THEN keys
     ELSE SubSeq(keys, 1, at - 1) \o <<n>> \o SubSeq(keys, at, Len(keys))

\* name is in both lists and the manifest and its directory is complete
Registered(n) ==
  /\ n \in Range(HtmlKeys(ulKids))
  /\ n \in Range(mdFile)
  /\ n \in Range(manifest)
  /\ dirs[n] = FullDir(n)

\* C1: starting from sorted, duplicate-free lists, in every reachable state
\* the entries of index.html, the entries of README.md and the strings of
\* repository.json are each strictly ascending (sorted, no duplicate).
C1_OrderingInvariant ==
  /\ StrictlySorted(HtmlKeys(ulKids))
  /\ StrictlySorted(mdFile)
  /\ StrictlySorted(manifest)

\* a successful run that wrote all three documents and put its name in front
\* of existing entries
C1_Witness ==
  /\ pc = "exit" /\ err = "nil"
  /\ wrote = {"dir", "index.html", "README.md", "repository.json"}
  /\ Len(manifest) >= 2 /\ manifest[1] = name
  /\ Len(mdFile) >= 2 /\ mdFile[1] = name
  /\ HtmlKeys(ulKids)[1] = name

\* C2: a run whose name was registered by the previous successful run of the
\* same name starts from a state where the name is registered, and every step
\* of a run on a registered name leaves all files as they are, writes none of
\* the three documents and fails with no write error.
C2_Idempotence ==
  /\ [](name \in Names /\ prevOk = name => Registered(name))
  /\ [][(name \in Names /\ Registered(name)) =>
          /\ files' = files
          /\ wrote' \subseteq wrote \cup {"dir"}
          /\ err' # "write"]_vars

\* the second of two successful runs with the same name has ended
C2_Witness ==
  /\ pc = "exit" /\ err = "nil" /\ prevOk = name
  /\ wrote = {"dir"}
  /\ calls = Order

\* C3: the steps are invoked in the order instance, index, readme, record,
\* each only while no error has occurred and after all earlier ones; exit 0
\* means all four ran; a failure leads straight to exit with a non-zero
\* status, leaves what earlier steps wrote in place, and after exit nothing
\* but a new invocation follows.
C3_DriverOrder ==
  /\ [](\E k \in 0..Len(Order) : calls = SubSeq(Order, 1, k))
  /\ [](Running => err = "pending")
  /\ [](pc \in {"main", "instance"} => calls = <<>>)
  /\ [](pc \in {"index"} => calls = SubSeq(Order, 1, 1))
  /\ [](pc \in {"index_outer", "index_inner", "index_add", "readme"}
          => calls = SubSeq(Order, 1, 2))
  /\ [](pc \in {"readme_scan", "readme_write", "record"} => calls = SubSeq(Order, 1, 3))
  /\ [](pc = "exit" => (err = "nil" => calls = Order) /\ err # "pending")
  /\ [][(err = "pending" /\ err' # "pending" /\ err' # "nil") =>
          /\ pc' = "exit"
          /\ pc # "instance" => dirs' = dirs
          /\ ulKids' = ulKids /\ mdFile' = mdFile /\ manifest' = manifest
          /\ wrote \subseteq wrote']_vars
  /\ [][pc = "exit" => pc' = "main" /\ files' = files]_vars

\* readme failed to write after instance and index had succeeded and written
C3_Witness ==
  /\ pc = "exit" /\ err = "write"
  /\ calls = <<"instance", "index", "readme">>
  /\ wrote = {"dir", "index.html"}
  /\ name \in Range(HtmlKeys(ulKids)) /\ name \notin Range(mdFile)

\* C4: when readme() splices a new entry into a list whose markers are well
\* placed: a name below every existing key becomes the only holder of
\* beginning-of-list; a name above every existing key becomes the only holder
\* of end-of-list; a name in between leaves every existing entry's flags as
\* they were.
C4_BoundaryMarkers ==
  [][(pc = "readme_scan" /\ pc' = "readme_write" /\ MarkersWellPlaced(entries)) =>
       LET keys == MdKeys(entries)
           p == CHOOSE i \in 1..Len(entries') : entries'[i].key = name
       IN /\ (\A i \in 1..Len(keys) : name < keys[i])
               => p = 1 /\ Holders(entries', "Begin") = {p}
          /\ (\A i \in 1..Len(keys) : name > keys[i])
               => p = Len(entries') /\ Holders(entries', "End") = {p}
          /\ ((\E i \in 1..Len(keys) : name > keys[i])
                /\ (\E i \in 1..Len(keys) : name < keys[i]))
               => Without(entries', p) = entries]_vars

\* Scenario D: a one-entry list, the new name spliced in front of it
C4_Witness ==
  /\ pc = "readme_write"
  /\ Len(mdFile) = 1 /\ Len(entries) = 2
  /\ entries[1].key = name /\ entries[2].key = mdFile[1]
  /\ entries[1].flags = {"Begin"}
  /\ entries[2].flags = {}

\* C5: every invocation eventually ends (all four steps done, or a fatal
\* error).
C5_Termination == (pc = "main") ~> (pc = "exit")

\* C6 as stated: an invocation without argument ends with the usage error
\* before any step and writes nothing, and the steps run only when exactly one
\* argument was given.
C6_ExactlyOneArgument ==
  /\ (pc = "exit" /\ Len(args) = 0) => (err = "usage" /\ calls = <<>> /\ wrote = {})
  /\ (Running \/ calls # <<>>) => Len(args) = 1

\* C6 amended: an invocation without argument ends with the usage error before
\* any step and changes no file; the steps run only when at least one argument
\* was given, on the first argument.
C6_ArgumentCheck ==
  /\ []((pc = "exit" /\ Len(args) = 0) => (err = "usage" /\ calls = <<>> /\ wrote = {}))
  /\ []((Running \/ calls # <<>>) => (Len(args) >= 1 /\ name = args[1]))
  /\ [][Len(args') = 0 => files' = files]_vars

\* the invocation without argument has ended
C6_Witness ==
  /\ pc = "exit" /\ Len(args) = 0 /\ err = "usage" /\ runs >= 1

\* C7: record(n) on any array M: with n in M the file is left as it is and no
\* write error arises; with n not in M a successful record leaves a sorted
\* array holding every string of M as often as before and n exactly once; a
\* failed record leaves the file as it is.
C7_ManifestResult ==
  [][pc = "record" =>
       IF name \in Range(manifest)
         THEN manifest' = manifest /\ err' # "write"
         ELSE IF err' = "nil"
           THEN /\ Sorted(manifest')
                /\ Len(manifest') = Len(manifest) + 1
                /\ \A x \in Names :
                     Count(manifest', x) = Count(manifest, x) + (IF x = name THEN 1 ELSE 0)
           ELSE manifest' = manifest]_vars

\* Scenario B: the middle name added between two others
C7_Witness ==
  /\ pc = "exit" /\ err = "nil" /\ "repository.json" \in wrote
  /\ Len(manifest) = 3 /\ StrictlySorted(manifest) /\ manifest[2] = name

\* C8: on any key sequence, index() and readme() both end with the result of
\* the reference scan (no change when the first key >= name equals name, else
\* name spliced before it, the other keys kept in order), and so agree with
\* each other when applied to the same key sequence.
C8_InsertionPoint ==
  /\ [][(pc = "index_add" /\ err' # "write") =>
          HtmlKeys(ulKids') = RefInsert(HtmlKeys(ulKids), name)]_vars
  /\ [][pc = "readme_scan" =>
          IF pc' = "readme_write"
            THEN /\ MdKeys(entries') = RefInsert(MdKeys(entries), name)
                 /\ MdKeys(entries') # MdKeys(entries)
            ELSE RefInsert(MdKeys(entries), name) = MdKeys(entries)]_vars
  /\ [][(pc = "readme_write" /\ err' # "write") => mdFile' = MdKeys(entries)]_vars
  /\ [](\A n \in Names, tail \in BOOLEAN :
          LET keys == HtmlKeys(ulKids)
              es == ParseList(keys, tail)
          IN keys # <<>> =>
               HtmlKeys(IF IndexPresent(ulKids, n) THEN ulKids ELSE IndexInsert(ulKids, n))
                 = MdKeys(IF ReadmePresent(es, n) THEN es ELSE ReadmeInsert(es, n)))

\* a name spliced into an unsorted list, before its first greater key
C8_Witness ==
  /\ pc = "readme_write"
  /\ Len(mdFile) = 2 /\ mdFile[1] > mdFile[2]
  /\ name < mdFile[1] /\ name > mdFile[2]
  /\ MdKeys(entries) = <<name>> \o mdFile
  /\ HtmlKeys(ulKids) = <<name>> \o mdFile

\* C9: after readme() has spliced a name into a list whose first entry held
\* beginning-of-list and whose last entry held end-of-list, the first entry
\* holds beginning-of-list, the last holds end-of-list, and no other entry
\* holds either.
C9_MarkersPreserved ==
  [][(pc = "readme_scan" /\ pc' = "readme_write" /\ MarkersWellPlaced(entries))
       => MarkersWellPlaced(entries')]_vars

\* C10: every name of repository.json has an entry in index.html, an entry in
\* README.md and its directory.
C10_RegistrationOrder ==
  \A n \in Range(manifest) :
    /\ n \in Range(HtmlKeys(ulKids))
    /\ n \in Range(mdFile)
    /\ dirs[n].exists

\* an aborted run: its name is in index.html and README.md and has its
\* directory, and is not in the manifest, beside names that are
C10_Witness ==
  /\ pc = "exit" /\ err = "write" /\ calls = Order
  /\ manifest # <<>>
  /\ name \notin Range(manifest)
  /\ name \in Range(HtmlKeys(ulKids)) /\ name \in Range(mdFile)
  /\ dirs[name].exists

====
